---- MODULE Spec2Model ----
(***************************************************************************)
(* Model of the LogoRust Bevy logo renderer.                               *)
(*                                                                         *)
(*   - src/src/geometry.rs : the mesh builders (ring, filled disk,         *)
(*     triangle, fan-triangulated polygon), the triangle placement         *)
(*     formulas and the table of the 8 parts of the letter "R";            *)
(*   - src/src/systems/setup.rs : setup_system, which spawns the camera    *)
(*     and every primitive of the scene, then prints a summary;            *)
(*   - src/src/config.rs : the configuration constants;                    *)
(*   - src/unnamed/part_000 : the earlier program, whose camera_control    *)
(*     pans the camera while the left mouse button is dragged.             *)
(*                                                                         *)
(* Numbers.  Coordinates and radii of the source are f32 values that are   *)
(* small integers (200.0, -140.0, ...): they are modelled by those         *)
(* integers.  Depths (the z of a Transform, z_order) are the f32 literals  *)
(* 0.0, 0.1, 0.2, 0.3, 0.40 .. 0.47: they are modelled in hundredths (0,   *)
(* 10, 20, 30, 40 .. 47), which keeps their order and their equalities.    *)
(* A point computed with cos/sin is kept as the term the code evaluates    *)
(* (radius and angle), never as a rounded number.  The centroid of points  *)
(* with integer coordinates is computed in f32, each operation rounded as  *)
(* IEEE 754 binary32 rounds it.  Indices are usize cast to u32; within the *)
(* bounds below no cast truncates.                                         *)
(***************************************************************************)
EXTENDS Integers, Sequences, FiniteSets, TLC

(***************************************************************************)
(* Bounds of the enumerated inputs.                                        *)
(***************************************************************************)
\* largest segment count a builder is called with directly
MaxSegments == 6
\* radii handed to the ring and disk builders are 0 .. MaxRadius
MaxRadius == 2
\* x coordinates of the points handed to the triangle and polygon builders
MaxCoord == 2
\* longest point list handed to the polygon builder directly
MaxPoints == 4
\* how many entries of the logo table may be cut below 3 points
MaxMalformed == 1
\* largest value EXTERIOR_TRIANGLES_COUNT is edited to
MaxExteriorCount == 72
\* cursor coordinates inside the window are 0 .. MaxCursor
MaxCursor == 1
\* most button events delivered between two frames
MaxEvents == 2
\* frames of the camera program that are run
MaxFrames == 4

(***************************************************************************)
(* Configuration: src/src/config.rs                                        *)
(***************************************************************************)
CIRCLE_RADIUS == 200
CIRCLE_THICKNESS == 30
CIRCLE_SEGMENTS == 64
EXTERIOR_TRIANGLES_COUNT == 36
SMALL_TRIANGLE_SIDE == 25
INTERIOR_TRIANGLES_COUNT == 5
LARGE_TRIANGLE_SIDE == 80
SMALL_CIRCLE_RADIUS == 15
SMALL_CIRCLE_SEGMENTS == 32

(***************************************************************************)
(* Points.                                                                 *)
(***************************************************************************)
\* Vec2::new(x, y), and the position [x, y, 0.0] made of it
Vec2(x, y) == [tag |-> "xy", x |-> x, y |-> y]

\* [radius * angle.cos(), radius * angle.sin(), 0.0] with
\* angle = 2.0 * PI * i / segments.  An angle in radians is kept as the
\* multiple of PI it is: pi_num * PI / pi_den.
CirclePoint(radius, i, segments) ==
    [tag |-> "circle", radius |-> radius,
     angle |-> [pi_num |-> 2 * i, pi_den |-> segments]]

\* A mesh: TriangleList topology, ATTRIBUTE_POSITION and U32 indices.
\* positions[k+1] is the position of index k.
Mesh(positions, indices) ==
    [outcome |-> "mesh", positions |-> positions, indices |-> indices]

\* A call that panicked: it unwinds, and its caller gets no value at all.
Panic(message) == [outcome |-> "panic", message |-> message]

\* Option<T>: None, Some(v)
None == << >>
Some(v) == << v >>

\* usize arithmetic that can abort: a - b overflows when a < b ("attempt to
\* subtract with overflow") and a % b has no value when b = 0 ("attempt to
\* calculate the remainder with a divisor of zero"); None stands for the
\* abort
usize_sub(a, b) == IF a >= b THEN Some(a - b) ELSE None
usize_rem(a, b) == IF b # 0 THEN Some(a % b) ELSE None

(***************************************************************************)
(* Loops that push onto a Vec.                                             *)
(***************************************************************************)
\* What `for i in lo..hi { v.push(..); .. }` appends to v when iteration
\* i pushes the `width` values pushes[i], in order.  The range is empty
\* when hi <= lo, and then the body is not evaluated.
Pushed(lo, hi, width, pushes) ==
    LET count == IF hi > lo THEN hi - lo ELSE 0
    IN  [k \in 1..(count * width) |->
            pushes[lo + ((k - 1) \div width)][((k - 1) % width) + 1]]

\* for i in 0..segments { positions.push([radius*cos, radius*sin, 0.0]) }
circle_positions(radius, segments) ==
    LET pushes == [i \in 0..(segments - 1) |->
                      << CirclePoint(radius, i, segments) >>]
    IN  Pushed(0, segments, 1, pushes)

(***************************************************************************)
(* create_circle_mesh: the ring.                                           *)
(***************************************************************************)
\* the ring with the second triangle's last two vertices exchanged
create_circle_mesh_flipped(outer_radius, inner_radius, segments) ==
    LET pushes == [i \in 0..(segments - 1) |->
                      LET next == (i + 1) % segments
                      IN  << i, segments + i, next,
                             next, segments + next, segments + i >>]
    IN  Mesh(circle_positions(outer_radius, segments)
                 \o circle_positions(inner_radius, segments),
             Pushed(0, segments, 6, pushes))

\* the ring with next = i + 1, the wrap-around forgotten
create_circle_mesh_nowrap(outer_radius, inner_radius, segments) ==
    LET pushes == [i \in 0..(segments - 1) |->
                      LET next == i + 1
                      IN  << i, segments + i, next,
                             next, segments + i, segments + next >>]
    IN  Mesh(circle_positions(outer_radius, segments)
                 \o circle_positions(inner_radius, segments),
             Pushed(0, segments, 6, pushes))

\* outer circle, inner circle, then
\* for i in 0..segments { next = (i + 1) % segments; six pushes }
create_circle_mesh(outer_radius, inner_radius, segments) ==
    LET rem == [i \in 0..(segments - 1) |-> usize_rem(i + 1, segments)]
        pushes == [i \in 0..(segments - 1) |->
                      LET next == rem[i][1]
                      IN  << i, segments + i, next,
                             next, segments + i, segments + next >>]
    IN  IF \E i \in DOMAIN rem : rem[i] = None
        THEN Panic("attempt to calculate the remainder with a divisor of zero")
        ELSE Mesh(circle_positions(outer_radius, segments)
                      \o circle_positions(inner_radius, segments),
                  Pushed(0, segments, 6, pushes))

(***************************************************************************)
(* create_filled_circle_mesh: the filled disk.                             *)
(***************************************************************************)
\* the fan closing on index 0, the centre, instead of index 1
create_filled_circle_mesh_tocentre(radius, segments) ==
    LET pushes == [i \in 0..(segments - 1) |->
                      LET next == IF i = segments - 1 THEN 0 ELSE i + 2
                      IN  << 0, i + 1, next >>]
    IN  Mesh(<< Vec2(0, 0) >> \o circle_positions(radius, segments),
             Pushed(0, segments, 3, pushes))

\* the fan with next = i + 2 for every i, the last one included
create_filled_circle_mesh_nowrap(radius, segments) ==
    LET pushes == [i \in 0..(segments - 1) |-> << 0, i + 1, i + 2 >>]
    IN  Mesh(<< Vec2(0, 0) >> \o circle_positions(radius, segments),
             Pushed(0, segments, 3, pushes))

\* segments - 1 computed once, before the loop
create_filled_circle_mesh_hoisted(radius, segments) ==
    LET last == usize_sub(segments, 1)
        pushes == [i \in 0..(segments - 1) |->
                      LET next == IF i = last[1] THEN 1 ELSE i + 2
                      IN  << 0, i + 1, next >>]
    IN  IF last = None
        THEN Panic("attempt to subtract with overflow")
        ELSE Mesh(<< Vec2(0, 0) >> \o circle_positions(radius, segments),
                  Pushed(0, segments, 3, pushes))

\* the centre, the perimeter, then
\* for i in 0..segments { next = if i == segments - 1 { 1 } else { i + 2 } }
\* (segments - 1 is evaluated inside the loop only, so with segments >= 1)
create_filled_circle_mesh(radius, segments) ==
    LET last == [i \in 0..(segments - 1) |-> usize_sub(segments, 1)]
        pushes == [i \in 0..(segments - 1) |->
                      LET next == IF i = last[i][1] THEN 1 ELSE i + 2
                      IN  << 0, i + 1, next >>]
    IN  IF \E i \in DOMAIN last : last[i] = None
        THEN Panic("attempt to subtract with overflow")
        ELSE Mesh(<< Vec2(0, 0) >> \o circle_positions(radius, segments),
                  Pushed(0, segments, 3, pushes))

(***************************************************************************)
(* create_triangle_from_points                                             *)
(***************************************************************************)
\* the triangle builder with p2 and p3 exchanged in the positions
create_triangle_from_points_swapped(p1, p2, p3) ==
    Mesh(<< p1, p3, p2 >>, << 0, 1, 2 >>)

create_triangle_from_points(p1, p2, p3) ==
    Mesh(<< p1, p2, p3 >>, << 0, 1, 2 >>)

(***************************************************************************)
(* create_polygon_from_points: fan triangulation from vertex 0.            *)
(***************************************************************************)
\* for i in 1..(points.len() - 1) { push 0, i, i + 1 }
fan_indices(n) ==
    LET pushes == [i \in 1..(n - 2) |-> << 0, i, i + 1 >>]
    IN  Pushed(1, n - 1, 3, pushes)

\* the polygon builder with the loop running one triangle too far
create_polygon_from_points_extra(points) ==
    IF Len(points) < 3
    THEN Panic("Un polygone doit avoir au moins 3 points")
    ELSE Mesh(points, fan_indices(Len(points) + 1))

\* the polygon builder with the length check forgotten: 0 points would
\* underflow points.len() - 1, 1 or 2 points give a mesh without triangle
create_polygon_from_points_unchecked(points) ==
    IF Len(points) = 0
    THEN Panic("attempt to subtract with overflow")
    ELSE Mesh(points, fan_indices(Len(points)))

create_polygon_from_points(points) ==
    IF Len(points) < 3
    THEN Panic("Un polygone doit avoir au moins 3 points")
    ELSE Mesh(points, fan_indices(Len(points)))

(***************************************************************************)
(* Angles and triangle placement.                                          *)
(***************************************************************************)
\* degrees * PI / 180.0
degrees_to_radians(degrees) == [pi_num |-> degrees, pi_den |-> 180]

\* Vec2::new(r * a.cos(), r * a.sin()) of the placement formulas, where
\*   r = radius + apex * height,       height = side * (sqrt(3) / 2)
\*   a = base_angle + arc * (half_side / radius),  half_side = side / 2
\* with apex and arc in {-1, 0, 1}
PlacedPoint(radius, apex, side, base_angle, arc) ==
    [tag |-> "placed", radius |-> radius, apex |-> apex, side |-> side,
     angle |-> base_angle, arc |-> arc]

\* the exterior apex at circle_radius - height, pointing at the centre
calculate_exterior_triangle_points_inward(base_angle, circle_radius, side) ==
    << PlacedPoint(circle_radius, 0, side, base_angle, -1),
       PlacedPoint(circle_radius, 0, side, base_angle, 1),
       PlacedPoint(circle_radius, -1, side, base_angle, 0) >>

calculate_exterior_triangle_points(base_angle, circle_radius, triangle_side) ==
    << PlacedPoint(circle_radius, 0, triangle_side, base_angle, -1),
       PlacedPoint(circle_radius, 0, triangle_side, base_angle, 1),
       PlacedPoint(circle_radius, 1, triangle_side, base_angle, 0) >>

\* the interior apex at inner_radius + height, pointing away from the centre
calculate_interior_triangle_points_outward(base_angle, inner_radius, side) ==
    << PlacedPoint(inner_radius, 0, side, base_angle, -1),
       PlacedPoint(inner_radius, 0, side, base_angle, 1),
       PlacedPoint(inner_radius, 1, side, base_angle, 0) >>

calculate_interior_triangle_points(base_angle, inner_radius, triangle_side) ==
    << PlacedPoint(inner_radius, 0, triangle_side, base_angle, -1),
       PlacedPoint(inner_radius, 0, triangle_side, base_angle, 1),
       PlacedPoint(inner_radius, -1, triangle_side, base_angle, 0) >>

(***************************************************************************)
(* f32 arithmetic of calculate_triangle_centroid.  An f32 is m * 2^e with  *)
(* a significand of at most 24 bits; every + and / returns the f32 nearest *)
(* to the exact result, ties going to the even significand.  Magnitudes    *)
(* stay far from the subnormal and the overflow range.                     *)
(***************************************************************************)
Pow2[k \in 0..30] == IF k = 0 THEN 1 ELSE 2 * Pow2[k - 1]

Abs(n) == IF n < 0 THEN 0 - n ELSE n

\* the f32 of value m * 2^e, written with m odd (0 is F32(0, 0))
F32(m, e) == [m |-> m, e |-> e]

RECURSIVE f32_odd(_, _)
f32_odd(m, e) ==
    IF m = 0 THEN F32(0, 0)
    ELSE IF m % 2 = 0 THEN f32_odd(m \div 2, e + 1)
    ELSE F32(m, e)

\* the f32 nearest to (n / d) * 2^e for n > 0 and d > 0: the quotient is
\* scaled into [2^23, 2^24) and rounded to an integer significand
RECURSIVE f32_nearest(_, _, _)
f32_nearest(n, d, e) ==
    IF n < Pow2[23] * d THEN f32_nearest(2 * n, d, e - 1)
    ELSE IF n >= Pow2[24] * d THEN f32_nearest(n, 2 * d, e + 1)
    ELSE LET q == n \div d
             r == n % d
             up == 2 * r > d \/ (2 * r = d /\ q % 2 = 1)
         IN  f32_odd(IF up THEN q + 1 ELSE q, e)

\* the f32 nearest to n / d, d > 0
f32(n, d) ==
    IF n = 0 THEN F32(0, 0)
    ELSE LET v == f32_nearest(Abs(n), d, 0)
         IN  IF n < 0 THEN F32(0 - v.m, v.e) ELSE v

\* a + b of two integer-valued f32: the sum is an integer again
f32_add(a, b) == LET v == f32(a + b, 1) IN v.m * Pow2[v.e]

\* a / 3.0 of an integer-valued f32
f32_div(a, b) == f32(a, b)

\* a Vec2 whose coordinates are f32 that need not be integers
Vec2_f32(x, y) == [tag |-> "xy_f32", x32 |-> x, y32 |-> y]

\* the third vertex left out and the second taken twice
calculate_triangle_centroid_twice(p1, p2, p3) ==
    IF { p1.tag, p2.tag, p3.tag } = { "xy" }
    THEN Vec2_f32(f32_div(f32_add(f32_add(p1.x, p2.x), p2.x), 3),
                  f32_div(f32_add(f32_add(p1.y, p2.y), p2.y), 3))
    ELSE [tag |-> "centroid", p1 |-> p1, p2 |-> p2, p3 |-> p2]

\* Vec2::new((p1.x + p2.x + p3.x) / 3.0, (p1.y + p2.y + p3.y) / 3.0),
\* evaluated left to right in f32.  Over placed points, whose coordinates
\* are products with a cosine and a sine, it stays the term over its three
\* arguments.
calculate_triangle_centroid(p1, p2, p3) ==
    IF { p1.tag, p2.tag, p3.tag } = { "xy" }
    THEN Vec2_f32(f32_div(f32_add(f32_add(p1.x, p2.x), p3.x), 3),
                  f32_div(f32_add(f32_add(p1.y, p2.y), p3.y), 3))
    ELSE [tag |-> "centroid", p1 |-> p1, p2 |-> p2, p3 |-> p3]

(***************************************************************************)
(* The logo "R": get_all_r_parts.                                          *)
(***************************************************************************)
RPartDefinition(name, z_order, points) ==
    [name |-> name, z_order |-> z_order, points |-> points]

\* the table with the depths of "Centre du R" and "Pied gauche du R"
\* exchanged
get_all_r_parts_unordered ==
    << RPartDefinition("Haut du R", 40,
           << Vec2(-140, 90), Vec2(60, 90), Vec2(60, 50), Vec2(-100, 50) >>),
       RPartDefinition("Gauche du R", 41,
           << Vec2(-80, 50), Vec2(-30, 50), Vec2(-30, -50), Vec2(-80, -50) >>),
       RPartDefinition("Arrondi du R", 42,
           << Vec2(60, 90), Vec2(85, 60), Vec2(100, 30), Vec2(85, 0),
              Vec2(60, -30) >>),
       RPartDefinition("Centre du R", 44,
           << Vec2(60, 50), Vec2(40, 50), Vec2(60, 10), Vec2(40, 10) >>),
       RPartDefinition("Pied gauche du R", 43,
           << Vec2(-80, -50), Vec2(-10, -50), Vec2(-10, -80), Vec2(-140, -80),
              Vec2(-160, -50), Vec2(-80, -50) >>),
       RPartDefinition("Milieu du R", 45,
           << Vec2(60, -30), Vec2(60, 10), Vec2(-30, 10), Vec2(-30, -30) >>),
       RPartDefinition("Jambe droite du R", 46,
           << Vec2(60, -30), Vec2(20, -30), Vec2(60, -50), Vec2(100, -50) >>),
       RPartDefinition("Pied droit du R", 47,
           << Vec2(160, -50), Vec2(30, -50), Vec2(30, -80), Vec2(120, -80) >>) >>

get_all_r_parts ==
    << RPartDefinition("Haut du R", 40,
           << Vec2(-140, 90), Vec2(60, 90), Vec2(60, 50), Vec2(-100, 50) >>),
       RPartDefinition("Gauche du R", 41,
           << Vec2(-80, 50), Vec2(-30, 50), Vec2(-30, -50), Vec2(-80, -50) >>),
       RPartDefinition("Arrondi du R", 42,
           << Vec2(60, 90), Vec2(85, 60), Vec2(100, 30), Vec2(85, 0),
              Vec2(60, -30) >>),
       RPartDefinition("Centre du R", 43,
           << Vec2(60, 50), Vec2(40, 50), Vec2(60, 10), Vec2(40, 10) >>),
       RPartDefinition("Pied gauche du R", 44,
           << Vec2(-80, -50), Vec2(-10, -50), Vec2(-10, -80), Vec2(-140, -80),
              Vec2(-160, -50), Vec2(-80, -50) >>),
       RPartDefinition("Milieu du R", 45,
           << Vec2(60, -30), Vec2(60, 10), Vec2(-30, 10), Vec2(-30, -30) >>),
       RPartDefinition("Jambe droite du R", 46,
           << Vec2(60, -30), Vec2(20, -30), Vec2(60, -50), Vec2(100, -50) >>),
       RPartDefinition("Pied droit du R", 47,
           << Vec2(160, -50), Vec2(30, -50), Vec2(30, -80), Vec2(120, -80) >>) >>

\* The table is hand-edited data (geometry.rs, "# Modification"), and
\* create_r_logo validates every entry it reads.  EditedTables is the table
\* as written together with its edits that leave at most MaxMalformed
\* entries with 0, 1 or 2 of their points.
CutPoints(table, cut) ==
    [e \in DOMAIN table |->
        IF e \in DOMAIN cut
        THEN [table[e] EXCEPT !.points = SubSeq(@, 1, cut[e])]
        ELSE table[e]]

EditedTables ==
    { CutPoints(get_all_r_parts, cut) :
        cut \in UNION { [S -> 0..2] :
                  S \in { T \in SUBSET (1..Len(get_all_r_parts)) :
                            Cardinality(T) <= MaxMalformed } } }

(***************************************************************************)
(* Materials: src/src/materials.rs.  Colour components are in tenths.      *)
(***************************************************************************)
Srgba(r, g, b, a) == [space |-> "srgba", c |-> << r, g, b, a >>]

get_main_circle_color == Srgba(8, 2, 1, 10)

\* Color::hsl((index * 10.0 / 360.0) * 360.0, 0.8, 0.6); the hue is kept
\* as the term it is computed from
get_rainbow_color(index) ==
    [space |-> "hsl", hue_times |-> 360, hue_num |-> index * 10,
     hue_den |-> 360, c |-> << 8, 6, 10 >>]

get_interior_triangle_color(index) ==
    LET colors == << Srgba(2, 6, 9, 10), Srgba(9, 6, 2, 10), Srgba(2, 9, 6, 10),
                     Srgba(9, 2, 6, 10), Srgba(6, 2, 9, 10) >>
    IN  colors[(index % Len(colors)) + 1]

get_small_circle_color == Srgba(10, 10, 10, 7)

(***************************************************************************)
(* State.                                                                  *)
(***************************************************************************)
VARIABLES
    pc,             \* where the run is: "call", "finished", or the function
                    \* of setup.rs that runs next, "done", "panicked"
    call,           \* the entry point and its arguments
    result,         \* how the entry point ended: a mesh, unit or a panic
    r_parts,        \* the table get_all_r_parts() returns in this build
    exterior_triangles_count,
                    \* config::EXTERIOR_TRIANGLES_COUNT in this build
    i,              \* the index of the loop that is running
    entities,       \* what commands.spawn was given, in order
    console,        \* what println! printed, in order
    polygon_calls   \* the arguments create_r_logo gave to the polygon builder

\* The state of the earlier program, src/unnamed/part_000, whose Update
\* schedule runs camera_control once per frame.
VARIABLES
    transform,      \* the Transform of the entity spawned with MainCamera
    drag_state,     \* the resource DragState
    mouse,          \* Input<MouseButton>, for MouseButton::Left
    cursor,         \* window.cursor_position() of this frame
    frame,          \* how many frames have begun
    hold            \* observer: where the button hold in progress began

camera_vars == << transform, drag_state, mouse, cursor, frame, hold >>

vars == << pc, call, result, r_parts, exterior_triangles_count, i, entities,
          console, polygon_calls, camera_vars >>

\* Camera2dBundle::default(): the translation is (0, 0, 999.9), z kept in
\* tenths; no rotation; scale one
CameraTransform ==
    [translation |-> [x |-> 0, y |-> 0, z |-> 9999],
     rotation |-> "IDENTITY",
     scale |-> << 1, 1, 1 >>]

\* #[derive(Resource, Default)] struct DragState
DragState(last_position) == [last_position |-> last_position]

\* Input<MouseButton> for one button: the three sets it is looked up in
Input(pressed, just_pressed, just_released) ==
    [pressed |-> pressed, just_pressed |-> just_pressed,
     just_released |-> just_released]

\* no button hold is in progress
NoHold == [began |-> "none", s |-> None, at |-> CameraTransform.translation]

\* the camera program after its Startup schedule: setup has spawned the
\* one MainCamera and has initialised DragState; no button is down
CameraAtRest ==
    /\ transform = CameraTransform
    /\ drag_state = DragState(None)
    /\ mouse = Input(FALSE, FALSE, FALSE)
    /\ frame = 0
    /\ hold = NoHold

NoResult == [outcome |-> "none"]
Unit == [outcome |-> "unit"]

\* The inputs the builders are called with.
Radii == 0..MaxRadius
SegmentCounts == 0..MaxSegments
Points == { Vec2(x, y) : x \in 0..MaxCoord, y \in 0..1 }
PointLists == UNION { [1..n -> Points] : n \in 0..MaxPoints }

\* vertices for the centroid: small coordinates, and 2^24, the first
\* magnitude at which an f32 sum of integers is rounded
CentroidPoints == { Vec2(x, y) : x \in { 0, 1, 6, Pow2[24] }, y \in { 0, 6 } }

\* arguments for the placement formulas: the base angle in radians, the
\* radius of the circle and the side of the triangle
BaseAngles == { degrees_to_radians(d) : d \in { 0, 90 } }
PlacementRadii == { 100, CIRCLE_RADIUS - CIRCLE_THICKNESS, CIRCLE_RADIUS }
TriangleSides == { 10, SMALL_TRIANGLE_SIDE, LARGE_TRIANGLE_SIDE }

Calls ==
    { [fn |-> "create_circle_mesh", args |-> << o, n, s >>] :
          o \in Radii, n \in Radii, s \in SegmentCounts }
    \cup { [fn |-> "create_filled_circle_mesh", args |-> << r, s >>] :
          r \in Radii, s \in SegmentCounts }
    \cup { [fn |-> "create_triangle_from_points", args |-> << a, b, c >>] :
          a \in Points, b \in Points, c \in Points }
    \cup { [fn |-> "create_polygon_from_points", args |-> << ps >>] :
          ps \in PointLists }
    \cup { [fn |-> "calculate_triangle_centroid", args |-> << a, b, c >>] :
          a \in CentroidPoints, b \in CentroidPoints, c \in CentroidPoints }
    \cup { [fn |-> f, args |-> << a, r, s >>] :
          f \in { "calculate_exterior_triangle_points",
                  "calculate_interior_triangle_points" },
          a \in BaseAngles, r \in PlacementRadii, s \in TriangleSides }

\* a client of the library calls one of the pub functions of geometry.rs
InitCall ==
    /\ pc = "call"
    /\ call \in Calls
    /\ result = NoResult
    /\ r_parts = get_all_r_parts
    /\ exterior_triangles_count = EXTERIOR_TRIANGLES_COUNT
    /\ i = 0
    /\ entities = << >>
    /\ console = << >>
    /\ polygon_calls = << >>
    /\ CameraAtRest
    /\ cursor = None

\* EXTERIOR_TRIANGLES_COUNT is a constant to edit (config.rs, "Modification :
\* doit être un diviseur de 360"): the values it may be given
ExteriorCounts == { n \in 1..MaxExteriorCount : 360 % n = 0 }

\* run(): Bevy's Startup schedule runs setup_system once, in a build with
\* the table edited or with the count of exterior triangles edited
InitSetup ==
    /\ pc = "setup_system"
    /\ call = [fn |-> "setup_system", args |-> << >>]
    /\ result = NoResult
    /\ \/ /\ r_parts \in EditedTables
          /\ exterior_triangles_count = EXTERIOR_TRIANGLES_COUNT
       \/ /\ r_parts = get_all_r_parts
          /\ exterior_triangles_count \in ExteriorCounts
    /\ i = 0
    /\ entities = << >>
    /\ console = << >>
    /\ polygon_calls = << >>
    /\ CameraAtRest
    /\ cursor = None

Init == InitCall \/ InitSetup

(***************************************************************************)
(* The builders, called directly.                                          *)
(***************************************************************************)
\* the call ends, with the mesh it returns or with its panic
Finish(outcome) ==
    /\ result' = outcome
    /\ pc' = "finished"
    /\ UNCHANGED << call, r_parts, exterior_triangles_count, camera_vars, i, entities, console, polygon_calls >>

CallCircleMesh ==
    /\ pc = "call"
    /\ call.fn = "create_circle_mesh"
    /\ Finish(create_circle_mesh(call.args[1], call.args[2], call.args[3]))

CallFilledCircleMesh ==
    /\ pc = "call"
    /\ call.fn = "create_filled_circle_mesh"
    /\ Finish(create_filled_circle_mesh(call.args[1], call.args[2]))

CallTriangleFromPoints ==
    /\ pc = "call"
    /\ call.fn = "create_triangle_from_points"
    /\ Finish(create_triangle_from_points(call.args[1], call.args[2],
                                          call.args[3]))

CallPolygonFromPoints ==
    /\ pc = "call"
    /\ call.fn = "create_polygon_from_points"
    /\ Finish(create_polygon_from_points(call.args[1]))

\* a call that returns a value which is not a mesh
Returned(value) == [outcome |-> "value", value |-> value]

CallTriangleCentroid ==
    /\ pc = "call"
    /\ call.fn = "calculate_triangle_centroid"
    /\ Finish(Returned(calculate_triangle_centroid(call.args[1], call.args[2],
                                                   call.args[3])))

CallExteriorTrianglePoints ==
    /\ pc = "call"
    /\ call.fn = "calculate_exterior_triangle_points"
    /\ Finish(Returned(calculate_exterior_triangle_points(
                  call.args[1], call.args[2], call.args[3])))

CallInteriorTrianglePoints ==
    /\ pc = "call"
    /\ call.fn = "calculate_interior_triangle_points"
    /\ Finish(Returned(calculate_interior_triangle_points(
                  call.args[1], call.args[2], call.args[3])))

(***************************************************************************)
(* setup_system: src/src/systems/setup.rs                                  *)
(***************************************************************************)
\* commands.spawn((Mesh2d(..), MeshMaterial2d(..), Transform::from_xyz(..)));
\* "by" is the function that spawns it
Primitive(by, mesh, material, at, z) ==
    [by |-> by, bundle |-> "Mesh2d", mesh |-> mesh, material |-> material,
     at |-> at, z |-> z]

\* Transform depths, in hundredths
Z_MAIN_CIRCLE == 0
\* the exterior triangles spawned in front of the interior triangles
Z_EXTERIOR_TRIANGLE_front == Z_MAIN_CIRCLE + 25
Z_EXTERIOR_TRIANGLE == 10
Z_INTERIOR_TRIANGLE == 20
\* the marker spawned at the depth of its triangle
Z_SMALL_CIRCLE_flat == Z_INTERIOR_TRIANGLE
Z_SMALL_CIRCLE == 30

\* commands.spawn(Camera2d::default())
SpawnCamera ==
    /\ pc = "setup_system"
    /\ entities' = Append(entities,
                          [by |-> "setup_system", bundle |-> "Camera2d"])
    /\ pc' = "create_main_circle"
    /\ UNCHANGED << call, result, r_parts, exterior_triangles_count, camera_vars, i, console, polygon_calls >>

create_main_circle ==
    /\ pc = "create_main_circle"
    /\ LET outer_radius == CIRCLE_RADIUS
           inner_radius == CIRCLE_RADIUS - CIRCLE_THICKNESS
           circle_mesh == create_circle_mesh(outer_radius, inner_radius,
                                             CIRCLE_SEGMENTS)
       IN  entities' = Append(entities,
               Primitive("create_main_circle", circle_mesh,
                         get_main_circle_color, Vec2(0, 0), Z_MAIN_CIRCLE))
    /\ pc' = "create_exterior_triangles"
    /\ i' = 0
    /\ UNCHANGED << call, result, r_parts, exterior_triangles_count, camera_vars, console, polygon_calls >>

\* one iteration of for i in 0..EXTERIOR_TRIANGLES_COUNT; the angle is
\* (i as f32) * 10.0 whatever the count is
create_exterior_triangles ==
    /\ pc = "create_exterior_triangles"
    /\ i < exterior_triangles_count
    /\ LET angle_degrees == i * 10
           base_angle == degrees_to_radians(angle_degrees)
           p == calculate_exterior_triangle_points(base_angle, CIRCLE_RADIUS,
                                                   SMALL_TRIANGLE_SIDE)
           triangle_mesh == create_triangle_from_points(p[1], p[2], p[3])
       IN  entities' = Append(entities,
               Primitive("create_exterior_triangles", triangle_mesh,
                         get_rainbow_color(i), Vec2(0, 0), Z_EXTERIOR_TRIANGLE))
    /\ IF i + 1 < exterior_triangles_count
       THEN pc' = pc /\ i' = i + 1
       ELSE pc' = "create_interior_triangles" /\ i' = 0
    /\ UNCHANGED << call, result, r_parts, exterior_triangles_count, camera_vars, console, polygon_calls >>

\* the marker spawned before its triangle
create_interior_triangles_marker_first ==
    /\ pc = "create_interior_triangles"
    /\ i < INTERIOR_TRIANGLES_COUNT
    /\ LET angle_degrees == i * 72 + 90
           base_angle == degrees_to_radians(angle_degrees)
           inner_radius == CIRCLE_RADIUS - CIRCLE_THICKNESS
           p == calculate_interior_triangle_points(base_angle, inner_radius,
                                                   LARGE_TRIANGLE_SIDE)
           triangle_center == calculate_triangle_centroid(p[1], p[2], p[3])
           triangle_mesh == create_triangle_from_points(p[1], p[2], p[3])
           small_circle_mesh ==
               create_filled_circle_mesh(SMALL_CIRCLE_RADIUS,
                                         SMALL_CIRCLE_SEGMENTS)
       IN  entities' = entities \o
             << Primitive("create_interior_triangles.small_circle",
                          small_circle_mesh, get_small_circle_color,
                          triangle_center, Z_SMALL_CIRCLE),
                Primitive("create_interior_triangles.triangle", triangle_mesh,
                          get_interior_triangle_color(i), Vec2(0, 0),
                          Z_INTERIOR_TRIANGLE) >>
    /\ IF i + 1 < INTERIOR_TRIANGLES_COUNT
       THEN pc' = pc /\ i' = i + 1
       ELSE pc' = "create_r_logo" /\ i' = 0
    /\ UNCHANGED << call, result, r_parts, exterior_triangles_count, camera_vars, console, polygon_calls >>

\* one iteration of for i in 0..INTERIOR_TRIANGLES_COUNT: the triangle,
\* then its marker
create_interior_triangles ==
    /\ pc = "create_interior_triangles"
    /\ i < INTERIOR_TRIANGLES_COUNT
    /\ LET angle_degrees == i * 72 + 90
           base_angle == degrees_to_radians(angle_degrees)
           inner_radius == CIRCLE_RADIUS - CIRCLE_THICKNESS
           p == calculate_interior_triangle_points(base_angle, inner_radius,
                                                   LARGE_TRIANGLE_SIDE)
           triangle_center == calculate_triangle_centroid(p[1], p[2], p[3])
           triangle_mesh == create_triangle_from_points(p[1], p[2], p[3])
           small_circle_mesh ==
               create_filled_circle_mesh(SMALL_CIRCLE_RADIUS,
                                         SMALL_CIRCLE_SEGMENTS)
       IN  entities' = entities \o
             << Primitive("create_interior_triangles.triangle", triangle_mesh,
                          get_interior_triangle_color(i), Vec2(0, 0),
                          Z_INTERIOR_TRIANGLE),
                Primitive("create_interior_triangles.small_circle",
                          small_circle_mesh, get_small_circle_color,
                          triangle_center, Z_SMALL_CIRCLE) >>
    /\ IF i + 1 < INTERIOR_TRIANGLES_COUNT
       THEN pc' = pc /\ i' = i + 1
       ELSE pc' = "create_r_logo" /\ i' = 0
    /\ UNCHANGED << call, result, r_parts, exterior_triangles_count, camera_vars, console, polygon_calls >>

\* if part.points.len() < 3
IsMalformed_never(part) == FALSE

\* quadrilaterals refused as well
IsMalformed_short(part) == Len(part.points) < 5

IsMalformed(part) == Len(part.points) < 3

\* one iteration of for part in geometry::get_all_r_parts(); i counts the
\* parts already read
create_r_logo ==
    /\ pc = "create_r_logo"
    /\ i < Len(r_parts)
    /\ LET part == r_parts[i + 1]
           r_color == Srgba(10, 5, 0, 8)
           mesh == create_polygon_from_points(part.points)
           more == IF i + 1 < Len(r_parts) THEN "create_r_logo"
                   ELSE "print_creation_summary"
       IN  IF IsMalformed(part)
           THEN \* println!("... ignoré : moins de 3 points"); continue
                /\ console' = Append(console,
                       [line |-> "ignored", name |-> part.name])
                /\ pc' = more
                /\ i' = i + 1
                /\ UNCHANGED << entities, polygon_calls, result >>
           ELSE IF mesh.outcome = "panic"
           THEN \* the panic unwinds through create_r_logo and setup_system
                /\ polygon_calls' = Append(polygon_calls, part.points)
                /\ result' = mesh
                /\ pc' = "panicked"
                /\ UNCHANGED << entities, console, i >>
           ELSE /\ polygon_calls' = Append(polygon_calls, part.points)
                /\ entities' = Append(entities,
                       Primitive("create_r_logo", mesh, r_color, Vec2(0, 0),
                                 part.z_order))
                /\ console' = Append(console,
                       [line |-> "created", name |-> part.name,
                        points |-> Len(part.points), z |-> part.z_order])
                /\ pc' = more
                /\ i' = i + 1
                /\ UNCHANGED result
    /\ UNCHANGED << call, r_parts, exterior_triangles_count, camera_vars >>

\* the counts of the "ÉLÉMENTS CRÉÉS" block; setup_system returns after it
print_creation_summary ==
    /\ pc = "print_creation_summary"
    /\ LET r_parts_count == Len(r_parts)
       IN  console' = Append(console,
               [line |-> "summary", main_circle |-> 1,
                exterior |-> exterior_triangles_count,
                interior |-> INTERIOR_TRIANGLES_COUNT,
                small_circles |-> INTERIOR_TRIANGLES_COUNT,
                r_parts |-> r_parts_count])
    /\ result' = Unit
    /\ pc' = "done"
    /\ UNCHANGED << call, r_parts, exterior_triangles_count, camera_vars, i, entities, polygon_calls >>

Next ==
    \/ CallCircleMesh
    \/ CallFilledCircleMesh
    \/ CallTriangleFromPoints
    \/ CallPolygonFromPoints
    \/ CallTriangleCentroid
    \/ CallExteriorTrianglePoints
    \/ CallInteriorTrianglePoints
    \/ SpawnCamera
    \/ create_main_circle
    \/ create_exterior_triangles
    \/ create_interior_triangles
    \/ create_r_logo
    \/ print_creation_summary

Spec == Init /\ [][Next]_vars

(***************************************************************************)
(* Reading a mesh.                                                         *)
(***************************************************************************)
TriangleCount(mesh) == Len(mesh.indices) \div 3

\* the k-th triangle of a mesh, k = 1 .. TriangleCount(mesh)
TriangleAt(mesh, k) == SubSeq(mesh.indices, 3 * k - 2, 3 * k)

\* every index refers to a position
IndicesBelow(mesh, n) ==
    \A k \in DOMAIN mesh.indices : mesh.indices[k] >= 0 /\ mesh.indices[k] < n

Finished(fn) == pc = "finished" /\ call.fn = fn

\* the meshes of the entities one function of setup.rs has spawned
MeshesBy(by) ==
    { entities[k].mesh : k \in { e \in DOMAIN entities : entities[e].by = by } }

(***************************************************************************)
(* C1.  For every segments >= 3 and any radii, the ring builder returns    *)
(* exactly 2*segments positions and 2*segments triangles (6*segments       *)
(* indices), and every index is < 2*segments.  Checked on every direct     *)
(* call and on the ring setup_system spawns (CIRCLE_SEGMENTS segments).    *)
(***************************************************************************)
RingCounts(mesh, segments) ==
    /\ mesh.outcome = "mesh"
    /\ Len(mesh.positions) = 2 * segments
    /\ Len(mesh.indices) = 6 * segments
    /\ TriangleCount(mesh) = 2 * segments
    /\ IndicesBelow(mesh, 2 * segments)

C1_RingCounts ==
    /\ (Finished("create_circle_mesh") /\ call.args[3] >= 3)
          => RingCounts(result, call.args[3])
    /\ \A mesh \in MeshesBy("create_main_circle") :
          RingCounts(mesh, CIRCLE_SEGMENTS)

C1_Witness ==
    /\ Finished("create_circle_mesh")
    /\ call.args = << 1, 2, 5 >>
    /\ Len(result.positions) = 10
    /\ Len(result.indices) = 30

(***************************************************************************)
(* C3.  For n >= 3 points the polygon builder emits the n points as        *)
(* positions in input order and exactly n-2 triangles, the k-th being      *)
(* (0, k, k+1); every index is < n and there are 3*(n-2) indices.          *)
(* Checked on every direct call and on the logo parts create_r_logo        *)
(* builds (4 to 6 points).                                                 *)
(***************************************************************************)
IsFanOf(mesh, points) ==
    LET n == Len(points)
    IN  /\ mesh.outcome = "mesh"
        /\ mesh.positions = points
        /\ Len(mesh.indices) = 3 * (n - 2)
        /\ TriangleCount(mesh) = n - 2
        /\ \A k \in 1..(n - 2) : TriangleAt(mesh, k) = << 0, k, k + 1 >>
        /\ IndicesBelow(mesh, n)

C3_PolygonFan ==
    /\ (Finished("create_polygon_from_points") /\ Len(call.args[1]) >= 3)
          => IsFanOf(result, call.args[1])
    /\ \A mesh \in MeshesBy("create_r_logo") :
          \E e \in DOMAIN r_parts : IsFanOf(mesh, r_parts[e].points)

C3_Witness ==
    /\ Finished("create_polygon_from_points")
    /\ Len(call.args[1]) = 4
    /\ result.indices = << 0, 1, 2, 0, 2, 3 >>

(***************************************************************************)
(* C4.  For every segments >= 3 the ring's i-th pair of triangles          *)
(* (i = 0 .. segments-1) is (outer[i], inner[i], outer[(i+1) mod segments])*)
(* then (outer[(i+1) mod segments], inner[i], inner[(i+1) mod segments]),  *)
(* outer[j] being index j and inner[j] index segments+j; the last segment  *)
(* wraps to index 0 / segments.                                            *)
(***************************************************************************)
RingPattern(mesh, segments) ==
    LET outer(j) == j
        inner(j) == segments + j
    IN  /\ TriangleCount(mesh) = 2 * segments
        /\ \A s \in 0..(segments - 1) :
             /\ TriangleAt(mesh, 2 * s + 1) =
                  << outer(s), inner(s), outer((s + 1) % segments) >>
             /\ TriangleAt(mesh, 2 * s + 2) =
                  << outer((s + 1) % segments), inner(s),
                     inner((s + 1) % segments) >>
        /\ TriangleAt(mesh, 2 * segments - 1) =
             << segments - 1, 2 * segments - 1, 0 >>
        /\ TriangleAt(mesh, 2 * segments) = << 0, 2 * segments - 1, segments >>

C4_RingTriangles ==
    /\ (Finished("create_circle_mesh") /\ call.args[3] >= 3)
          => RingPattern(result, call.args[3])
    /\ \A mesh \in MeshesBy("create_main_circle") :
          RingPattern(mesh, CIRCLE_SEGMENTS)

C4_Witness ==
    /\ Finished("create_circle_mesh")
    /\ call.args[3] = 3
    /\ result.indices = << 0, 3, 1, 1, 3, 4,  1, 4, 2, 2, 4, 5,
                           2, 5, 0, 0, 5, 3 >>

(***************************************************************************)
(* C5.  For every segments >= 3 the filled-disk builder returns exactly    *)
(* segments+1 positions and segments triangles, position 0 is the centre   *)
(* (0,0), and every index is <= segments.  Checked on every direct call    *)
(* and on the markers setup_system spawns (SMALL_CIRCLE_SEGMENTS).         *)
(***************************************************************************)
DiskCounts(mesh, segments) ==
    /\ mesh.outcome = "mesh"
    /\ Len(mesh.positions) = segments + 1
    /\ Len(mesh.indices) = 3 * segments
    /\ TriangleCount(mesh) = segments
    /\ mesh.positions[1] = [tag |-> "xy", x |-> 0, y |-> 0]
    /\ IndicesBelow(mesh, segments + 1)

C5_DiskCounts ==
    /\ (Finished("create_filled_circle_mesh") /\ call.args[2] >= 3)
          => DiskCounts(result, call.args[2])
    /\ \A mesh \in MeshesBy("create_interior_triangles.small_circle") :
          DiskCounts(mesh, SMALL_CIRCLE_SEGMENTS)

C5_Witness ==
    /\ Finished("create_filled_circle_mesh")
    /\ call.args = << 2, 4 >>
    /\ Len(result.positions) = 5
    /\ Len(result.indices) = 12

(***************************************************************************)
(* C6.  For every segments >= 3 the disk's i-th triangle is (0, i+1, i+2)  *)
(* for i < segments-1 and (0, segments, 1) for i = segments-1: every pair  *)
(* of cyclically adjacent perimeter vertices is in exactly one triangle,   *)
(* with the centre, and no triangle refers past the last perimeter vertex. *)
(***************************************************************************)
DiskPattern(mesh, segments) ==
    /\ TriangleCount(mesh) = segments
    /\ \A s \in 0..(segments - 2) :
         TriangleAt(mesh, s + 1) = << 0, s + 1, s + 2 >>
    /\ TriangleAt(mesh, segments) = << 0, segments, 1 >>
    /\ \A j \in 1..segments :
         Cardinality({ k \in 1..TriangleCount(mesh) :
             TriangleAt(mesh, k) = << 0, j, (j % segments) + 1 >> }) = 1
    /\ \A k \in DOMAIN mesh.indices : mesh.indices[k] <= segments

C6_DiskTriangles ==
    /\ (Finished("create_filled_circle_mesh") /\ call.args[2] >= 3)
          => DiskPattern(result, call.args[2])
    /\ \A mesh \in MeshesBy("create_interior_triangles.small_circle") :
          DiskPattern(mesh, SMALL_CIRCLE_SEGMENTS)

C6_Witness ==
    /\ Finished("create_filled_circle_mesh")
    /\ call.args[2] = 3
    /\ result.indices = << 0, 1, 2,  0, 2, 3,  0, 3, 1 >>

(***************************************************************************)
(* C10.  The triangle builder returns exactly the three given points as    *)
(* positions 0, 1, 2 in argument order and exactly one triangle (0, 1, 2), *)
(* for every input, collinear or repeated points included.                 *)
(***************************************************************************)
C10_TriangleMesh ==
    Finished("create_triangle_from_points") =>
        /\ result.outcome = "mesh"
        /\ Len(result.positions) = 3
        /\ result.positions[1] = call.args[1]
        /\ result.positions[2] = call.args[2]
        /\ result.positions[3] = call.args[3]
        /\ result.indices = << 0, 1, 2 >>

\* a call with three distinct collinear points has ended, and one with a
\* repeated point can be made
C10_Witness ==
    /\ Finished("create_triangle_from_points")
    /\ call.args = << [tag |-> "xy", x |-> 0, y |-> 0],
                      [tag |-> "xy", x |-> 2, y |-> 0],
                      [tag |-> "xy", x |-> 1, y |-> 0] >>
    /\ TriangleCount(result) = 1
    /\ \E c \in Calls : c.fn = "create_triangle_from_points"
                        /\ c.args[1] = c.args[2]

(***************************************************************************)
(* C2 (as amended).  The polygon builder called with 0, 1 or 2 points      *)
(* panics ("Un polygone doit avoir au moins 3 points"): the call unwinds,  *)
(* no mesh is produced and no error value reaches the caller.  Called      *)
(* with 3 points it returns a mesh.                                        *)
(***************************************************************************)
C2_PolygonPanics ==
    Finished("create_polygon_from_points") =>
        /\ Len(call.args[1]) < 3 =>
               result = [outcome |-> "panic",
                         message |-> "Un polygone doit avoir au moins 3 points"]
        /\ Len(call.args[1]) = 3 =>
               result.outcome = "mesh" /\ TriangleCount(result) = 1

C2_Witness ==
    /\ Finished("create_polygon_from_points")
    /\ Len(call.args[1]) = 2
    /\ result.outcome = "panic"

(***************************************************************************)
(* C2 as stated: with 0, 1 or 2 points the polygon builder hands an        *)
(* InvalidGeometry error value back to its caller (and no mesh); with 3    *)
(* points it succeeds.                                                     *)
(***************************************************************************)
C2_AsStated ==
    Finished("create_polygon_from_points") =>
        /\ Len(call.args[1]) < 3 =>
               result = [outcome |-> "err", error |-> "InvalidGeometry"]
        /\ Len(call.args[1]) = 3 => result.outcome = "mesh"

(***************************************************************************)
(* C7.  The logo table returned by get_all_r_parts has exactly 8 entries,  *)
(* its depths (z_order) are strictly increasing in table order, and every  *)
(* entry has at least 3 vertices.  Stated of the table as written and of   *)
(* the table a run of setup_system reads when the build is not edited.     *)
(***************************************************************************)
IsLogoTable(table) ==
    /\ Len(table) = 8
    /\ \A e \in 1..(Len(table) - 1) : table[e].z_order < table[e + 1].z_order
    /\ \A e \in DOMAIN table : Len(table[e].points) >= 3

C7_LogoTable ==
    /\ IsLogoTable(get_all_r_parts)
    /\ (\A e \in DOMAIN r_parts : Len(r_parts[e].points) >= 3)
          => IsLogoTable(r_parts)

\* create_r_logo has read the whole table as written
C7_Witness ==
    /\ pc = "print_creation_summary"
    /\ r_parts = get_all_r_parts
    /\ i = 8
    /\ Len(polygon_calls) = 8

(***************************************************************************)
(* C8.  In create_r_logo an entry with fewer than 3 points is skipped      *)
(* without calling the polygon builder and without aborting: whatever the  *)
(* table, every entry with >= 3 points, before and after a malformed one,  *)
(* is emitted as a primitive, in table order, and the polygon builder's    *)
(* failure path is never reached.                                          *)
(***************************************************************************)
\* the entries with at least 3 points among the first n of the table
WellFormed(n) ==
    SelectSeq(SubSeq(r_parts, 1, n), LAMBDA part : Len(part.points) >= 3)

LogoEntities == SelectSeq(entities, LAMBDA e : e.by = "create_r_logo")

\* the parts create_r_logo has read so far
PartsRead ==
    IF pc \in { "create_r_logo", "print_creation_summary", "done", "panicked" }
    THEN i ELSE 0

C8_MalformedSkipped ==
    /\ pc # "panicked"
    /\ call.fn = "setup_system" => result.outcome # "panic"
    /\ \A k \in DOMAIN polygon_calls : Len(polygon_calls[k]) >= 3
    /\ Len(LogoEntities) = Len(WellFormed(PartsRead))
    /\ Len(polygon_calls) = Len(WellFormed(PartsRead))
    /\ \A k \in DOMAIN LogoEntities :
          /\ LogoEntities[k].mesh.outcome = "mesh"
          /\ LogoEntities[k].mesh.positions = WellFormed(PartsRead)[k].points
          /\ LogoEntities[k].z = WellFormed(PartsRead)[k].z_order
          /\ polygon_calls[k] = WellFormed(PartsRead)[k].points
    /\ pc = "done" => PartsRead = Len(r_parts)

\* a run over a table whose 4th entry is malformed has ended: the three
\* entries before it and the four after it were emitted
C8_Witness ==
    /\ pc = "done"
    /\ Len(r_parts[4].points) = 2
    /\ Len(LogoEntities) = 7
    /\ LogoEntities[3].z = 42
    /\ LogoEntities[4].z = 44
    /\ \E k \in DOMAIN console :
          console[k] = [line |-> "ignored", name |-> "Centre du R"]

(***************************************************************************)
(* C9.  Every primitive emitted by scene assembly carries the depth of its *)
(* class: the ring 0.0, every exterior triangle 0.1, every interior        *)
(* triangle 0.2, every centroid marker 0.3, every logo part its table      *)
(* depth, which is >= 0.4.  Hence every logo part is strictly in front of  *)
(* every marker, every marker of every interior triangle, every interior   *)
(* triangle of every exterior triangle, every exterior triangle of the     *)
(* ring.  (Depths in hundredths.)                                          *)
(***************************************************************************)
PrimitiveIndices == { k \in DOMAIN entities : entities[k].bundle = "Mesh2d" }

\* the layer of a primitive, from the function that spawned it
Layer(e) ==
    CASE e.by = "create_main_circle" -> 0
      [] e.by = "create_exterior_triangles" -> 1
      [] e.by = "create_interior_triangles.triangle" -> 2
      [] e.by = "create_interior_triangles.small_circle" -> 3
      [] e.by = "create_r_logo" -> 4

ExactSums(u, v, w) == Abs(u + v) <= Pow2[24] /\ Abs(u + v + w) <= Pow2[24]

\* C11, as the code has it: calculate_triangle_centroid returns, per
\* coordinate, the f32 value of ((x1 + x2) + x3) / 3.0.  That is the f32
\* nearest to the arithmetic mean whenever both additions are exact, and
\* exactly (2, 2) for (0,0), (6,0), (0,6); exchanging p1 and p2 never
\* changes the result.
C11_CentroidF32 ==
    Finished("calculate_triangle_centroid") =>
        LET p1 == call.args[1]
            p2 == call.args[2]
            p3 == call.args[3]
            c == result.value
        IN  /\ result.outcome = "value"
            /\ c.tag = "xy_f32"
            /\ ExactSums(p1.x, p2.x, p3.x) => c.x32 = f32(p1.x + p2.x + p3.x, 3)
            /\ ExactSums(p1.y, p2.y, p3.y) => c.y32 = f32(p1.y + p2.y + p3.y, 3)
            /\ << p1, p2, p3 >> = << Vec2(0, 0), Vec2(6, 0), Vec2(0, 6) >>
                  => c = Vec2_f32(F32(1, 1), F32(1, 1))
            /\ c = calculate_triangle_centroid(p2, p1, p3)

\* the centroid of (0,0), (6,0), (0,6) has been computed: it is (2, 2)
C11_Witness ==
    /\ Finished("calculate_triangle_centroid")
    /\ call.args = << Vec2(0, 0), Vec2(6, 0), Vec2(0, 6) >>
    /\ result = Returned(Vec2_f32(F32(1, 1), F32(1, 1)))

\* C11, as stated: the result is the arithmetic mean of each coordinate
\* (as an f32), (2, 2) for (0,0), (6,0), (0,6), and the same for every
\* order of the three arguments.
C11_MeanInAnyOrder ==
    Finished("calculate_triangle_centroid") =>
        LET p == call.args
            c == result.value
        IN  /\ c = Vec2_f32(f32(p[1].x + p[2].x + p[3].x, 3),
                            f32(p[1].y + p[2].y + p[3].y, 3))
            /\ p = << Vec2(0, 0), Vec2(6, 0), Vec2(0, 6) >>
                  => c = Vec2_f32(F32(1, 1), F32(1, 1))
            /\ \A a \in 1..3 : \A b \in (1..3) \ { a } :
                  \A d \in (1..3) \ { a, b } :
                      c = calculate_triangle_centroid(p[a], p[b], p[d])

(***************************************************************************)
(* The placement formulas.  A placed point is radius * (cos a, sin a): it  *)
(* lies at distance |radius| from the origin, along the angle a.           *)
(***************************************************************************)
\* the point lies along the base angle it was placed from, the angle zero
AlongAngleZero(p) == p.tag = "placed" /\ p.angle.pi_num = 0 /\ p.arc = 0

\* the point lies at radius exactly r, at the angle zero plus num / den
OnCircleAt(p, r, num, den) ==
    /\ p.tag = "placed"
    /\ p.radius = r /\ p.apex = 0
    /\ p.angle.pi_num = 0
    /\ p.arc * p.side * den = num * 2 * p.radius

\* side * sqrt(3) / 2 lies in [lo, hi), lo and hi in thousandths
HeightBetween(side, lo, hi) ==
    /\ (2 * lo) * (2 * lo) <= 3 * side * side * 1000000
    /\ 3 * side * side * 1000000 < (2 * hi) * (2 * hi)

C13_InteriorPoints ==
    Finished("calculate_interior_triangle_points") =>
        LET base_angle == call.args[1]
            inner_radius == call.args[2]
            side == call.args[3]
            p == result.value
            exterior == calculate_exterior_triangle_points(base_angle,
                                                           inner_radius, side)
        IN  /\ p[3].tag = "placed"
            /\ p[3].angle = base_angle /\ p[3].arc = 0
            /\ p[3].radius = inner_radius /\ p[3].apex = -1
            /\ p[3].side = side
            /\ p[1] = exterior[1]
            /\ p[2] = exterior[2]
            /\ call.args = << degrees_to_radians(0), 100, 10 >> =>
                  /\ AlongAngleZero(p[3])
                  /\ p[3].radius = 100 /\ p[3].side = 10
                  /\ HeightBetween(p[3].side, 8655, 8665)

\* the three points of the interior call (0, 100, 10) have been returned
C13_Witness ==
    /\ Finished("calculate_interior_triangle_points")
    /\ call.args = << degrees_to_radians(0), 100, 10 >>
    /\ result.outcome = "value"
    /\ Len(result.value) = 3
    /\ result.value[3].apex = -1

(***************************************************************************)
(* The shape of the logo parts.  The coordinates of the table are          *)
(* integers, so signed areas are computed exactly.                         *)
(***************************************************************************)
\* twice the signed area of the triangle (o, a, b): positive when it turns
\* counter-clockwise, negative when clockwise, 0 when it is flat
Cross(o, a, b) == (a.x - o.x) * (b.y - o.y) - (a.y - o.y) * (b.x - o.x)

Sign(n) == IF n > 0 THEN 1 ELSE IF n < 0 THEN -1 ELSE 0

\* twice the signed area of the k-th triangle of a mesh
SignedArea(mesh, k) ==
    LET t == TriangleAt(mesh, k)
    IN  Cross(mesh.positions[t[1] + 1], mesh.positions[t[2] + 1],
              mesh.positions[t[3] + 1])

\* the orientations found among the triangles of a mesh
Orientations(mesh) ==
    { Sign(SignedArea(mesh, k)) : k \in 1..TriangleCount(mesh) }

\* C14: every logo part is star-shaped from its vertex 0: the triangles
\* (0, i, i+1) of its fan all have the same orientation, so that no two of
\* them overlap.
C14_FanOneOrientation ==
    \A k \in DOMAIN LogoEntities :
        Orientations(LogoEntities[k].mesh) \in { { 1 }, { -1 } }

\* C15: every logo part is a contour of pairwise distinct vertices, and
\* every triangle of its fan has a non-zero area.
C15_DistinctVertices ==
    \A k \in DOMAIN LogoEntities :
        LET mesh == LogoEntities[k].mesh
        IN  /\ \A a \in DOMAIN mesh.positions : \A b \in DOMAIN mesh.positions :
                  a # b => mesh.positions[a] # mesh.positions[b]
            /\ \A t \in 1..TriangleCount(mesh) : SignedArea(mesh, t) # 0

(***************************************************************************)
(* The order in which setup_system emits the primitives.                   *)
(***************************************************************************)
\* the primitives emitted one right after the other: k, then k + 1
Consecutive ==
    { k \in PrimitiveIndices : k + 1 \in PrimitiveIndices }

\* the stage of setup_system that spawned a primitive
Stage(e) ==
    CASE e.by = "create_main_circle" -> 1
      [] e.by = "create_exterior_triangles" -> 2
      [] e.by = "create_interior_triangles.triangle" -> 3
      [] e.by = "create_interior_triangles.small_circle" -> 3
      [] e.by = "create_r_logo" -> 4

ExteriorEntities ==
    SelectSeq(entities, LAMBDA e : e.by = "create_exterior_triangles")

\* the base angle of an exterior triangle, in degrees: the angle its apex
\* is placed along
BaseAngleDegrees(e) == e.mesh.positions[3].angle.pi_num

\* C19: for every value of EXTERIOR_TRIANGLES_COUNT that divides 360 and
\* every i, the base angle of exterior triangle i is i * (360 / COUNT)
\* degrees, and no two exterior triangles are at the same angle modulo 360.
C19_RegularSpacing ==
    LET step == 360 \div exterior_triangles_count
    IN  /\ \A k \in DOMAIN ExteriorEntities :
              BaseAngleDegrees(ExteriorEntities[k]) = (k - 1) * step
        /\ \A k \in DOMAIN ExteriorEntities :
              \A m \in DOMAIN ExteriorEntities :
                  k # m => BaseAngleDegrees(ExteriorEntities[k]) % 360
                              # BaseAngleDegrees(ExteriorEntities[m]) % 360

(***************************************************************************)
(* What one run of setup_system emits.                                     *)
(***************************************************************************)
\* setup_system runs in the build as shipped: the table as written and
\* the 36 exterior triangles of config.rs
AsShipped ==
    /\ call.fn = "setup_system"
    /\ r_parts = get_all_r_parts
    /\ exterior_triangles_count = EXTERIOR_TRIANGLES_COUNT

\* how many entities a function has spawned
SpawnedBy(by) == Len(SelectSeq(entities, LAMBDA e : e.by = by))

\* C17: one run of setup_system emits exactly 1 ring, 36 exterior
\* triangles, 5 interior triangles, 5 markers and 8 logo parts, 55
\* primitives, and exactly one camera, then terminates; these are the
\* counts the summary prints.  Until it has returned the run can always take
\* its next step, and it never emits more than that.
C17_SceneCounts ==
    AsShipped =>
        /\ pc # "panicked"
        /\ pc # "done" => ENABLED Next
        /\ SpawnedBy("setup_system") <= 1
        /\ Cardinality(PrimitiveIndices) <= 55
        /\ pc = "done" =>
              /\ ~ ENABLED Next
              /\ SpawnedBy("setup_system") = 1
              /\ entities[1].bundle = "Camera2d"
              /\ SpawnedBy("create_main_circle") = 1
              /\ SpawnedBy("create_exterior_triangles") = 36
              /\ SpawnedBy("create_interior_triangles.triangle") = 5
              /\ SpawnedBy("create_interior_triangles.small_circle") = 5
              /\ SpawnedBy("create_r_logo") = 8
              /\ Cardinality(PrimitiveIndices) = 55
              /\ Len(entities) = 56
              /\ console[Len(console)] =
                    [line |-> "summary", main_circle |-> 1, exterior |-> 36,
                     interior |-> 5, small_circles |-> 5, r_parts |-> 8]

\* the run of the build as shipped has returned, the summary printed last
C17_Witness ==
    /\ AsShipped
    /\ pc = "done"
    /\ result = Unit
    /\ Len(entities) = 56
    /\ console[Len(console)].line = "summary"

\* C18: whatever the table holds, entries of fewer than 3 points included,
\* the number of logo parts the summary reports is the number of logo
\* parts create_r_logo has emitted.
C18_SummaryCountsEmitted ==
    pc = "done" =>
        console[Len(console)].r_parts = SpawnedBy("create_r_logo")

(***************************************************************************)
(* The interior triangles and their markers.                               *)
(***************************************************************************)
InteriorTriangles ==
    { k \in DOMAIN entities :
        entities[k].by = "create_interior_triangles.triangle" }

SmallCircles ==
    { k \in DOMAIN entities :
        entities[k].by = "create_interior_triangles.small_circle" }

\* the set of the positions of a mesh
Vertices(mesh) == { mesh.positions[v] : v \in DOMAIN mesh.positions }

\* C20: every interior triangle (depth 0.2) is emitted immediately before
\* its own marker (depth 0.3); the marker is placed at the centroid of
\* exactly the three vertices of that triangle; each triangle has exactly
\* one marker; the triangle is placed at (0, 0), its vertices being
\* absolute coordinates.
C20_TriangleThenMarker ==
    /\ \A k \in InteriorTriangles :
          LET triangle == entities[k]
              marker == entities[k + 1]
          IN  /\ k + 1 \in SmallCircles
              /\ triangle.z = 20 /\ marker.z = 30
              /\ triangle.at = Vec2(0, 0)
              /\ Len(triangle.mesh.positions) = 3
              /\ Cardinality(Vertices(triangle.mesh)) = 3
              /\ \A v \in Vertices(triangle.mesh) :
                    v.tag = "placed" /\ v.radius > 0
              /\ marker.at.tag = "centroid"
              /\ { marker.at.p1, marker.at.p2, marker.at.p3 }
                    = Vertices(triangle.mesh)
              /\ \A m \in InteriorTriangles \ { k } :
                    Vertices(entities[m].mesh) # Vertices(triangle.mesh)
    /\ \A k \in SmallCircles : k - 1 \in InteriorTriangles
    /\ Cardinality(SmallCircles) = Cardinality(InteriorTriangles)

\* the five interior triangles and the five markers have been emitted
C20_Witness ==
    /\ Cardinality(InteriorTriangles) = 5
    /\ Cardinality(SmallCircles) = 5
    /\ \E k \in InteriorTriangles :
          entities[k + 1].at =
              calculate_triangle_centroid(entities[k].mesh.positions[1],
                                          entities[k].mesh.positions[2],
                                          entities[k].mesh.positions[3])

(***************************************************************************)
(* The camera program: src/unnamed/part_000.  Every frame the engine first *)
(* brings Input<MouseButton> and the cursor position up to date, then runs *)
(* camera_control.  Cursor positions and translations are f32 that are     *)
(* small integers here, so every subtraction and addition is exact.        *)
(***************************************************************************)
\* Input::clear, at the start of a frame
clear(m) == Input(m.pressed, FALSE, FALSE)

\* Input::press: the button is just pressed if it was not pressed
press(m) == IF m.pressed THEN m ELSE Input(TRUE, TRUE, m.just_released)

\* Input::release: the button is just released if it was pressed
release(m) == IF m.pressed THEN Input(FALSE, m.just_pressed, TRUE) ELSE m

\* the button events of one frame, applied in the order of their arrival
RECURSIVE Deliver(_, _)
Deliver(m, events) ==
    IF events = << >> THEN m
    ELSE Deliver(IF Head(events) = "Pressed" THEN press(m) ELSE release(m),
                 Tail(events))

ButtonEvents ==
    UNION { [1..n -> { "Pressed", "Released" }] : n \in 0..MaxEvents }

\* window.cursor_position(): None when the cursor is outside the window
CursorPositions ==
    { None } \cup { Some(Vec2(x, y)) : x \in 0..MaxCursor, y \in 0..MaxCursor }

\* where the hold in progress at the end of this frame's input began: a
\* hold begins in the frame whose press leaves the button pressed
Observe(m, c) ==
    IF m.pressed /\ m.just_pressed
    THEN [began |-> IF c = None THEN "outside" ELSE "inside",
          s |-> c, at |-> transform.translation]
    ELSE IF m.pressed THEN hold ELSE NoHold

\* App::new() .. .run(), after Startup
CameraInit ==
    /\ pc = "frame_input"
    /\ call = [fn |-> "camera_control", args |-> << >>]
    /\ result = NoResult
    /\ r_parts = << >>
    /\ exterior_triangles_count = 0
    /\ i = 0
    /\ entities = << >>
    /\ console = << >>
    /\ polygon_calls = << >>
    /\ CameraAtRest
    /\ cursor \in CursorPositions

\* the engine's input systems, before Update
FrameInput ==
    /\ pc = "frame_input"
    /\ frame < MaxFrames
    /\ \E events \in ButtonEvents : \E c \in CursorPositions :
          /\ mouse' = Deliver(clear(mouse), events)
          /\ cursor' = c
          /\ hold' = Observe(Deliver(clear(mouse), events), c)
    /\ frame' = frame + 1
    /\ pc' = "camera_control"
    /\ UNCHANGED << call, result, r_parts, exterior_triangles_count, i,
                    entities, console, polygon_calls, transform, drag_state >>

\* the position stored even when the cursor is outside the window
if_just_pressed_default(ds, m, c) ==
    IF m.just_pressed
    THEN DragState(Some(IF c = None THEN Vec2(0, 0) ELSE c[1]))
    ELSE ds

\* if mouse.just_pressed(MouseButton::Left) {
\*     if let Some(position) = window.cursor_position() { .. } }
if_just_pressed(ds, m, c) ==
    IF m.just_pressed /\ c # None THEN DragState(Some(c[1])) ELSE ds

\* both coordinates moved against the drag
Pan_same_sign(t, delta) ==
    [t EXCEPT !.translation.x = @ - delta.x, !.translation.y = @ - delta.y]

\* transform.translation.x -= delta.x; transform.translation.y += delta.y;
Pan(t, delta) ==
    [t EXCEPT !.translation.x = @ - delta.x, !.translation.y = @ + delta.y]

\* if mouse.pressed(MouseButton::Left) {
\*     if let (Some(last_pos), Some(current_pos)) = (.., ..) { .. } }
if_pressed(t, ds, m, c) ==
    IF m.pressed /\ ds.last_position # None /\ c # None
    THEN LET last_pos == ds.last_position[1]
             current_pos == c[1]
             delta == Vec2(current_pos.x - last_pos.x,
                           current_pos.y - last_pos.y)
         IN  [transform |-> Pan(t, delta),
              drag_state |-> DragState(Some(current_pos))]
    ELSE [transform |-> t, drag_state |-> ds]

\* the position kept after the release
if_just_released_never(ds, m) == ds

\* if mouse.just_released(MouseButton::Left) { .. = None; }
if_just_released(ds, m) == IF m.just_released THEN DragState(None) ELSE ds

\* one run of the system: its three ifs, in order
camera_control ==
    /\ pc = "camera_control"
    /\ LET first == if_just_pressed(drag_state, mouse, cursor)
           second == if_pressed(transform, first, mouse, cursor)
           third == if_just_released(second.drag_state, mouse)
       IN  /\ transform' = second.transform
           /\ drag_state' = third
    /\ pc' = "frame_input"
    /\ UNCHANGED << call, result, r_parts, exterior_triangles_count, i,
                    entities, console, polygon_calls, mouse, cursor, frame,
                    hold >>

CameraNext == FrameInput \/ camera_control

CameraSpec == CameraInit /\ [][CameraNext]_vars

(***************************************************************************)
(* The camera pan.                                                         *)
(***************************************************************************)
\* camera_control has run in this frame
EndOfFrame == call.fn = "camera_control" /\ pc = "frame_input" /\ frame > 0

\* C21: for a drag that began on a frame where the left button was just
\* pressed with the cursor inside the window at s, at the end of every
\* frame of that hold in which the cursor is inside the window at c, the
\* translation of the camera is its value at the press frame plus
\* (-(c.x - s.x), +(c.y - s.y)).
C21_PanTelescopes ==
    ( /\ EndOfFrame
      /\ mouse.pressed
      /\ hold.began = "inside"
      /\ cursor # None ) =>
        LET s == hold.s[1]
            c == cursor[1]
        IN  /\ transform.translation.x = hold.at.x - (c.x - s.x)
            /\ transform.translation.y = hold.at.y + (c.y - s.y)

\* camera_control has run in this frame, or no frame has begun yet
BetweenFrames == call.fn = "camera_control" /\ pc = "frame_input"

\* C22: at the end of every frame last_position is Some only if the left
\* button is held; it is None initially and after every frame in which the
\* button was just released, a frame reporting press and release included;
\* it becomes Some only in a just-pressed frame with the cursor inside the
\* window; and a just-pressed frame never moves the camera, so that no drag
\* uses a position remembered from the drag before it.
C22_LastPositionWhileHeld ==
    /\ [](BetweenFrames =>
            /\ frame = 0 => drag_state.last_position = None
            /\ drag_state.last_position # None => mouse.pressed
            /\ mouse.just_released => drag_state.last_position = None)
    /\ [][ ( /\ drag_state.last_position = None
             /\ drag_state'.last_position # None )
              => mouse.just_pressed /\ cursor # None ]_vars
    /\ [][ (pc = "camera_control" /\ mouse.just_pressed)
              => transform' = transform ]_vars

\* after a drag that has moved the camera, a frame that reports both a
\* press and a release has ended, and last_position is None
C22_Witness ==
    /\ EndOfFrame
    /\ mouse.just_pressed /\ mouse.just_released /\ ~ mouse.pressed
    /\ cursor # None
    /\ drag_state.last_position = None
    /\ transform.translation.x # CameraTransform.translation.x

\* C23: camera_control leaves the translation of the camera unchanged in
\* every frame in which the left button is not pressed, or last_position is
\* None, or the cursor is outside the window; in the other frames it moves
\* translation.x by -delta.x and translation.y by +delta.y, delta being the
\* cursor position minus the position stored last (the press position in a
\* just-pressed frame); it never changes translation.z, rotation or scale.
C23_FrameEffect ==
    [][ pc = "camera_control" =>
          /\ transform'.translation.z = transform.translation.z
          /\ transform'.rotation = transform.rotation
          /\ transform'.scale = transform.scale
          /\ IF \/ ~ mouse.pressed
                \/ drag_state.last_position = None
                \/ cursor = None
             THEN transform' = transform
             ELSE LET stored == IF mouse.just_pressed THEN cursor[1]
                                ELSE drag_state.last_position[1]
                      delta == Vec2(cursor[1].x - stored.x,
                                    cursor[1].y - stored.y)
                  IN  /\ transform'.translation.x
                            = transform.translation.x - delta.x
                      /\ transform'.translation.y
                            = transform.translation.y + delta.y ]_vars

\* a drag from (0, 0) to (1, 1) has moved the camera by (-1, +1) and has
\* left the rest of its transform as it was
C23_Witness ==
    /\ EndOfFrame
    /\ mouse.pressed
    /\ hold.s = Some(Vec2(0, 0))
    /\ cursor = Some(Vec2(1, 1))
    /\ transform = [CameraTransform EXCEPT !.translation.x = -1,
                                           !.translation.y = 1]

\* C24: if the left button goes down on a frame where the cursor is
\* outside the window, the translation of the camera stays unchanged for as
\* long as that button is held, also once the cursor is back inside the
\* window and moves; last_position stays None during that hold.
C24_PressOutsideNeverPans ==
    ( /\ call.fn = "camera_control"
      /\ mouse.pressed
      /\ hold.began = "outside" ) =>
        /\ transform.translation = hold.at
        /\ pc = "frame_input" => drag_state.last_position = None

\* a hold that began outside the window goes on with the cursor inside it,
\* at another position than in the frame before
C24_Witness ==
    /\ EndOfFrame
    /\ mouse.pressed /\ ~ mouse.just_pressed
    /\ hold.began = "outside"
    /\ cursor = Some(Vec2(1, 1))
    /\ frame >= 3
    /\ transform = CameraTransform

(***************************************************************************)
(* The builders below 3 segments.                                          *)
(***************************************************************************)
\* the Mesh invariant: every index refers to a position, and the indices
\* come in threes
MeshInvariant(mesh) ==
    /\ IndicesBelow(mesh, Len(mesh.positions))
    /\ Len(mesh.indices) % 3 = 0

\* C25: with 0, 1 or 2 segments the ring builder and the disk builder
\* still return a mesh, without any arithmetic abort, and the mesh keeps
\* the Mesh invariant: 2 * segments positions and 6 * segments indices for
\* the ring, segments + 1 positions and 3 * segments indices for the disk.
C25_BelowThreeSegments ==
    /\ ( /\ Finished("create_circle_mesh")
         /\ call.args[3] \in 0..2 ) =>
            /\ result.outcome = "mesh"
            /\ Len(result.positions) = 2 * call.args[3]
            /\ Len(result.indices) = 6 * call.args[3]
            /\ MeshInvariant(result)
    /\ ( /\ Finished("create_filled_circle_mesh")
         /\ call.args[2] \in 0..2 ) =>
            /\ result.outcome = "mesh"
            /\ Len(result.positions) = call.args[2] + 1
            /\ Len(result.indices) = 3 * call.args[2]
            /\ MeshInvariant(result)

\* the disk builder has returned from a call with 0 segments: the centre
\* alone, and no triangle
C25_Witness ==
    /\ Finished("create_filled_circle_mesh")
    /\ call.args[2] = 0
    /\ result = Mesh(<< Vec2(0, 0) >>, << >>)

====
